---- MODULE Spec2Model ----
(***************************************************************************)
(* Decoding pipeline of torch_xla/csrc/triton/triton_utils.cpp:            *)
(*   ZlibUncompress (adaptive-buffer retry loop around zlib's uncompress), *)
(*   GetTritonKernelCallName, GetTritonKernelCallSerializedMetadata.       *)
(*                                                                         *)
(* A compressed stream is modelled at the granularity of deflate symbols:  *)
(* a sequence of <<tag, value>> pairs, one pair per unit of                *)
(* compressed.size():                                                      *)
(*   <<"H",0>>  zlib header            <<"L",b>>  literal byte b           *)
(*   <<"R",n>>  repeat the last output byte n times (a distance-1 match)   *)
(*   <<"E",0>>  end of block           <<"A",s>>  Adler-32 trailer         *)
(* Memory is assumed sufficient: std::string::resize does not throw and    *)
(* uncompress does not report Z_MEM_ERROR.                                 *)
(***************************************************************************)
EXTENDS Integers, Sequences, FiniteSets, TLC

\* ------------------------------------------------------------------ bounds

\* Number of threads that may run calls at the same time (SpecConc).
NumThreads == 2
\* Longest run one "R" symbol can encode (deflate: 258).
MaxMatch == 40
\* Length of the highly compressible payload that forces buffer growth.
BigLen == 80
\* Length of the long metadata field of the largest record.
MetaLen == 60
\* The count of codec attempts kept for the properties saturates here.
AttemptCap == 3

\* ------------------------------------------------------- program constants

\* uLongf dest_len = 5 * compressed.size();
InitialFactor == 5
\* dest_len *= 2;
GrowthFactor == 2

\* Wire tags of the two fields of TritonAnyKernelCall (length-delimited):
\* bytes metadata = 3; string name = 4;  tag = field * 8 + 2.
MetadataTag == 26
NameTag == 34

Threads == 1..NumThreads

Min(a, b) == IF a < b THEN a ELSE b

Zeros(n) == [i \in 1..n |-> 0]

\* The element of a one-element set. {F(x) : x \in {e}} evaluates e once
\* and hands its value to F, however often F uses it.
The(S) == CHOOSE x \in S : TRUE

\* ------------------------------------------------------------- the codec

\* The sum of b[lo..hi], by halves.
RECURSIVE SumBytes(_, _, _)
SumBytes(b, lo, hi) ==
    IF lo > hi THEN 0
    ELSE IF lo = hi THEN b[lo]
    ELSE The({SumBytes(b, lo, m) + SumBytes(b, m + 1, hi)
              : m \in {(lo + hi) \div 2}})

\* Adler-32 as its two 16-bit halves: 1 plus the sum of the bytes, and the
\* sum of those running sums, both modulo 65521.
Adler(b) ==
    The({<<(1 + SumBytes(b, 1, Len(b))) % 65521,
           (Len(b) + SumBytes(w, 1, Len(b))) % 65521>>
         : w \in {[j \in 1..Len(b) |-> (Len(b) - j + 1) * b[j]]}})

\* Number of bytes of b from index i on that equal byte x.
RunLen(b, i, x) ==
    LET other == {j \in i..Len(b) : b[j] # x}
    IN  IF other = {} THEN Len(b) + 1 - i
        ELSE (CHOOSE j \in other : \A k \in other : j <= k) - i

\* Greedy symbol encoder: a byte equal to its predecessor starts a run.
RECURSIVE Deflate(_, _)
Deflate(b, i) ==
    IF i > Len(b) THEN <<>>
    ELSE IF i > 1 /\ b[i] = b[i - 1]
         THEN The({<<<<"R", m>>>> \o Deflate(b, i + m)
                   : m \in {Min(RunLen(b, i, b[i - 1]), MaxMatch)}})
         ELSE <<<<"L", b[i]>>>> \o Deflate(b, i + 1)

Compress(b) ==
    <<<<"H", 0>>>> \o Deflate(b, 1) \o <<<<"E", 0>>, <<"A", Adler(b)>>>>

\* inflate() on the symbols from index i on, into an output area of `avail`
\* bytes of which `out` are written. It ends with Z_STREAM_END, with
\* Z_DATA_ERROR, or with Z_BUF_ERROR when it can make no progress: the
\* output area is full and more is to be written, or the input has run out.
RECURSIVE Inflate(_, _, _, _)
Inflate(src, avail, i, out) ==
    IF i > Len(src) THEN [err |-> "Z_BUF_ERROR", out |-> out]
    ELSE LET s == src[i] IN
      CASE s[1] = "L" ->
             IF Len(out) = avail THEN [err |-> "Z_BUF_ERROR", out |-> out]
             ELSE The({Inflate(src, avail, i + 1, w)
                       : w \in {Append(out, s[2])}})
        [] s[1] = "R" ->
             IF out = <<>> \/ s[2] < 1 THEN [err |-> "Z_DATA_ERROR", out |-> out]
             ELSE The({IF Len(w) - Len(out) < s[2]
                       THEN [err |-> "Z_BUF_ERROR", out |-> w]
                       ELSE Inflate(src, avail, i + 1, w)
                       : w \in {out \o [j \in 1..Min(s[2], avail - Len(out))
                                          |-> out[Len(out)]]}})
        [] s[1] = "E" ->
             IF i + 1 > Len(src) THEN [err |-> "Z_BUF_ERROR", out |-> out]
             ELSE IF src[i + 1] = <<"A", Adler(out)>>
                  THEN [err |-> "Z_STREAM_END", out |-> out]
                  ELSE [err |-> "Z_DATA_ERROR", out |-> out]
        [] OTHER -> [err |-> "Z_DATA_ERROR", out |-> out]

InflateStream(src, avail) ==
    IF src = <<>> THEN [err |-> "Z_BUF_ERROR", out |-> <<>>]
    ELSE IF src[1] # <<"H", 0>> THEN [err |-> "Z_DATA_ERROR", out |-> <<>>]
    ELSE Inflate(src, avail, 2, <<>>)

\* What uncompress makes of inflate's result r: total_out bytes were written;
\* left + avail_out is the room not used.
UncompressResult(r, dest, destLen) ==
    LET total_out == Len(r.out)
        left == IF destLen = 0 /\ total_out > 0 /\ r.err = "Z_BUF_ERROR"
                THEN 1 ELSE 0
        avail_out == (IF destLen = 0 THEN 1 ELSE destLen) - total_out
    IN  [ret |-> IF r.err = "Z_STREAM_END" THEN "Z_OK"
                 ELSE IF r.err = "Z_BUF_ERROR" /\ left + avail_out # 0
                      THEN "Z_DATA_ERROR"
                      ELSE r.err,
         dest |-> IF destLen = 0 THEN dest
                  ELSE r.out \o SubSeq(dest, total_out + 1, Len(dest)),
         destLen |-> IF destLen = 0 THEN destLen ELSE total_out]

\* zlib's uncompress(dest, &destLen, source, sourceLen): the return code, the
\* bytes of dest afterwards and the value left in destLen. With destLen = 0
\* it inflates into a one-byte scratch area and leaves dest and destLen alone.
\* Z_BUF_ERROR is reported only when the whole of dest was written.
uncompress(dest, destLen, source) ==
    The({UncompressResult(r, dest, destLen)
         : r \in {InflateStream(source, IF destLen = 0 THEN 1 ELSE destLen)}})

\* ------------------------------------------------------------ absl::Status

OkStatus(v) == [ok |-> TRUE, code |-> "kOk", msg |-> "", value |-> v]

InvalidArgumentError(m) ==
    [ok |-> FALSE, code |-> "kInvalidArgument", msg |-> m, value |-> <<>>]

\* No value yet (the call has not returned).
NoStatus == [ok |-> FALSE, code |-> "none", msg |-> "", value |-> <<>>]

\* --------------------------------------------------------- ZlibUncompress

\* std::string::resize(n): truncate, or extend with zero bytes.
Resize(s, n) ==
    IF n <= Len(s) THEN SubSeq(s, 1, n) ELSE s \o Zeros(n - Len(s))

\* uLongf dest_len = 5 * compressed.size();  (uLongf is 64 bits wide here;
\* no size within the bounds comes near 2^64, so no product wraps)
InitialDestLen(compressed) == InitialFactor * Len(compressed)

GrowStuck(n) == n

GrowAssign(n) == GrowthFactor

\* dest_len *= 2;
Grow(n) == n * GrowthFactor

TrimOmitted(d, n) == d

\* if (ret == Z_OK) data.resize(dest_len);
Trim(d, n) == Resize(d, n)

LoopExitAcceptPartial(r) ==
    IF r \in {"Z_OK", "Z_BUF_ERROR"} THEN "break" ELSE "return"

LoopExitRetryAll(r) == IF r = "Z_OK" THEN "break" ELSE "loop"

\* The three-way branch on uncompress's return code.
LoopExit(r) ==
    IF r = "Z_OK" THEN "break"
    ELSE IF r = "Z_BUF_ERROR" THEN "loop"
    ELSE "return"

BranchCapped(u, compressed, n) ==
    LET next == IF u.ret = "Z_BUF_ERROR" /\ n > InitialDestLen(compressed)
                THEN "return" ELSE LoopExit(u.ret)
    IN  [ret |-> u.ret,
         used |-> n,
         reported |-> u.destLen,
         next |-> next,
         data |-> IF next = "break" THEN Trim(u.dest, u.destLen) ELSE u.dest,
         dest_len |-> IF next = "loop" THEN Grow(u.destLen) ELSE u.destLen,
         status |-> IF next = "return"
                    THEN InvalidArgumentError("Failed to uncompress opaque data.")
                    ELSE NoStatus]

\* The loop body after the codec call, whose result is u: the branch on
\* u.ret. used: the buffer size handed to the codec; reported: what it left
\* in dest_len; next: "break", "loop" (retry) or "return" (the error return).
Branch(u, compressed, n) ==
    LET next == LoopExit(u.ret)
    IN  [ret |-> u.ret,
         used |-> n,
         reported |-> u.destLen,
         next |-> next,
         data |-> IF next = "break" THEN Trim(u.dest, u.destLen) ELSE u.dest,
         dest_len |-> IF next = "loop" THEN Grow(u.destLen) ELSE u.destLen,
         status |-> IF next = "return"
                    THEN InvalidArgumentError("Failed to uncompress opaque data.")
                    ELSE NoStatus]

\* One pass of the while (true) body: resize, uncompress, branch.
Iteration(compressed, d, n) ==
    The({Branch(u, compressed, n)
         : u \in {uncompress(Resize(d, n), n, compressed)}})

RECURSIVE ZlibLoop(_, _, _)
ZlibLoop(compressed, d, n) ==
    The({IF it.next = "loop" THEN ZlibLoop(compressed, it.data, it.dest_len)
         ELSE IF it.next = "break" THEN OkStatus(it.data)
         ELSE it.status
         : it \in {Iteration(compressed, d, n)}})

\* ZlibUncompress run from entry to return.
ZlibUncompress(compressed) ==
    ZlibLoop(compressed, <<>>, InitialDestLen(compressed))

\* ------------------------------------------------- the message and accessors

\* Wire encoding of a record: the non-empty fields in field-number order,
\* each as tag, length, bytes.
Encode(name, metadata) ==
    (IF metadata = <<>> THEN <<>>
     ELSE <<MetadataTag, Len(metadata)>> \o metadata)
    \o (IF name = <<>> THEN <<>> ELSE <<NameTag, Len(name)>> \o name)

ParseFailed == [ok |-> FALSE, name |-> <<>>, metadata |-> <<>>]

\* Field by field: tag = field * 8 + wire type. Length-delimited (2) and
\* varint (0) fields are read, with one-byte lengths and varints; the two
\* known tags set their field (the last occurrence wins), any other field is
\* skipped. Field number 0, another wire type or a field running past the
\* end of the bytes fails the parse.
RECURSIVE ParseFields(_, _)
ParseFields(b, rec) ==
    IF b = <<>> THEN rec
    ELSE LET tag == b[1]
             wt == tag % 8
         IN  IF tag \div 8 = 0 \/ Len(b) < 2 \/ b[2] >= 128 THEN ParseFailed
             ELSE IF wt = 0 THEN ParseFields(SubSeq(b, 3, Len(b)), rec)
             ELSE IF wt = 2 /\ Len(b) >= 2 + b[2]
                  THEN LET v == SubSeq(b, 3, 2 + b[2])
                           rest == SubSeq(b, 3 + b[2], Len(b))
                       IN  ParseFields(rest,
                             IF tag = NameTag THEN [rec EXCEPT !.name = v]
                             ELSE IF tag = MetadataTag
                                  THEN [rec EXCEPT !.metadata = v]
                                  ELSE rec)
             ELSE ParseFailed

\* proto.ParseFromString(serialized)
ParseFromString(serialized) ==
    ParseFields(serialized, [ok |-> TRUE, name |-> <<>>, metadata |-> <<>>])

\* JAX_ASSIGN_OR_RETURN(lhs, expr): on an error status the enclosing function
\* returns that status; otherwise lhs receives the value.
JAX_ASSIGN_OR_RETURN(statusor) ==
    IF statusor.ok
    THEN [returned |-> FALSE, status |-> NoStatus, value |-> statusor.value]
    ELSE [returned |-> TRUE, status |-> statusor, value |-> <<>>]

NameUnchecked(statusor) ==
    LET proto == ParseFromString(statusor.value)
    IN  [parsed |-> TRUE,
         result |-> IF proto.ok THEN OkStatus(proto.name)
                    ELSE InvalidArgumentError("Failed to parse serialized data.")]

NameReturnsMetadata(statusor) ==
    LET a == JAX_ASSIGN_OR_RETURN(statusor)
        proto == ParseFromString(a.value)
    IN  IF a.returned THEN [parsed |-> FALSE, result |-> a.status]
        ELSE [parsed |-> TRUE,
              result |-> IF proto.ok THEN OkStatus(proto.metadata)
                         ELSE InvalidArgumentError("Failed to parse serialized data.")]

NameIgnoresParseFailure(statusor) ==
    LET a == JAX_ASSIGN_OR_RETURN(statusor)
        proto == ParseFromString(a.value)
    IN  IF a.returned THEN [parsed |-> FALSE, result |-> a.status]
        ELSE [parsed |-> TRUE, result |-> OkStatus(proto.name)]

\* GetTritonKernelCallName, from the return of its ZlibUncompress call on.
\* parsed: whether ParseFromString was called.
GetTritonKernelCallName(statusor) ==
    LET a == JAX_ASSIGN_OR_RETURN(statusor)
        proto == ParseFromString(a.value)
    IN  IF a.returned THEN [parsed |-> FALSE, result |-> a.status]
        ELSE [parsed |-> TRUE,
              result |-> IF proto.ok THEN OkStatus(proto.name)
                         ELSE InvalidArgumentError("Failed to parse serialized data.")]

\* GetTritonKernelCallSerializedMetadata, likewise.
GetTritonKernelCallSerializedMetadata(statusor) ==
    LET a == JAX_ASSIGN_OR_RETURN(statusor)
        proto == ParseFromString(a.value)
    IN  IF a.returned THEN [parsed |-> FALSE, result |-> a.status]
        ELSE [parsed |-> TRUE,
              result |-> IF proto.ok THEN OkStatus(proto.metadata)
                         ELSE InvalidArgumentError("Failed to parse serialized data.")]

Accessors ==
    {"GetTritonKernelCallName", "GetTritonKernelCallSerializedMetadata"}

\* The functions the header declares.
Functions == {"ZlibUncompress"} \cup Accessors

\* What the caller of function f receives once its ZlibUncompress call has
\* returned statusor.
Outcome(f, statusor) ==
    IF f = "GetTritonKernelCallName" THEN GetTritonKernelCallName(statusor)
    ELSE IF f = "GetTritonKernelCallSerializedMetadata"
         THEN GetTritonKernelCallSerializedMetadata(statusor)
         ELSE [parsed |-> FALSE, result |-> statusor]

\* A whole call of f on opaque, run on its own from entry to return.
RunAlone(f, opaque_in) == Outcome(f, ZlibUncompress(opaque_in)).result

\* ------------------------------------------------------------------ inputs

KernelName == <<107, 120>>
Metadata == <<0, 1, 98>>

Names == {<<>>, KernelName}
Metas == {<<>>, Metadata, Zeros(MetaLen)}

\* Encodings of records; the last one carries an extra field (5, varint).
RecordPayloads ==
    {Encode(n, m) : n \in Names, m \in Metas}
    \cup {<<40, 5>> \o Encode(KernelName, Metadata)}

\* Bytes that are no encoding of the message: a field running past the end,
\* field number 0, a tag with no length, an undefined wire type.
MalformedPayloads ==
    {<<NameTag, 5, 107>>, Zeros(BigLen), <<MetadataTag>>, <<39, 1>>}

Payloads == RecordPayloads \cup MalformedPayloads

ValidOpaques == {Compress(p) : p \in Payloads}

BadSum(c) ==
    [c EXCEPT ![Len(c)] = <<"A", <<(c[Len(c)][2][1] + 1) % 65521,
                                   c[Len(c)][2][2]>>>>]

\* Streams that are not validly compressed: every proper prefix (the empty
\* stream among them), a wrong checksum, a missing header, and a run with
\* nothing before it to repeat.
CorruptOpaques ==
    UNION {{SubSeq(c, 1, k) : k \in 0..(Len(c) - 1)} \cup {BadSum(c), Tail(c)}
           : c \in ValidOpaques}
    \cup {<<<<"H", 0>>, <<"R", 3>>, <<"E", 0>>, <<"A", Adler(<<>>)>>>>}

\* Valid streams followed by bytes the codec never reads.
TrailingOpaques == {c \o <<<<"L", 9>>>> : c \in ValidOpaques}

Opaques == ValidOpaques \cup CorruptOpaques \cup TrailingOpaques

\* The inputs of the concurrent specification: a record, a malformed record
\* that needs two doublings, a corrupt stream that needs one.
ConcOpaques ==
    {Compress(Encode(KernelName, Metadata)),
     Compress(Zeros(BigLen)),
     BadSum(Compress(Encode(KernelName, Zeros(MetaLen))))}

\* ------------------------------------------------------------------- state

VARIABLES
    pc,        \* per thread: "idle", "loop", "break", "caller", "done"
    fn,        \* per thread: the function called
    opaque,    \* per thread: its argument
    data,      \* per storage cell: std::string data
    dest_len,  \* per storage cell: uLongf dest_len
    zret,      \* per thread: what ZlibUncompress returned
    result,    \* per thread: what the call returned
    ret,       \* per thread: the last return code of uncompress
    attempts,  \* per thread: codec attempts made, up to AttemptCap
    sizes,     \* per thread: buffer sizes of the previous and the last attempt
    reported,  \* per thread: dest_len as the last attempt left it
    parsed,    \* per thread: whether ParseFromString was called
    zcalls     \* per thread: calls of ZlibUncompress made by this call

vars ==
    <<pc, fn, opaque, data, dest_len, zret, result, ret, attempts, sizes,
      reported, parsed, zcalls>>

StaticCell(t) == 1

\* The storage of a call's locals data and dest_len: automatic, one per call.
Local(t) == t

Init ==
    /\ pc = [t \in Threads |-> "idle"]
    /\ fn = [t \in Threads |-> "none"]
    /\ opaque = [t \in Threads |-> <<>>]
    /\ data = [c \in Threads |-> <<>>]
    /\ dest_len = [c \in Threads |-> 0]
    /\ zret = [t \in Threads |-> NoStatus]
    /\ result = [t \in Threads |-> NoStatus]
    /\ ret = [t \in Threads |-> "none"]
    /\ attempts = [t \in Threads |-> 0]
    /\ sizes = [t \in Threads |-> <<0, 0>>]
    /\ reported = [t \in Threads |-> 0]
    /\ parsed = [t \in Threads |-> FALSE]
    /\ zcalls = [t \in Threads |-> 0]

\* Thread t calls f(o); f enters ZlibUncompress(o) at once.
Call(t, f, o) ==
    /\ pc[t] = "idle"
    /\ pc' = [pc EXCEPT ![t] = "loop"]
    /\ fn' = [fn EXCEPT ![t] = f]
    /\ opaque' = [opaque EXCEPT ![t] = o]
    /\ data' = [data EXCEPT ![Local(t)] = <<>>]
    /\ dest_len' = [dest_len EXCEPT ![Local(t)] = InitialDestLen(o)]
    /\ zcalls' = [zcalls EXCEPT ![t] = 1]
    /\ UNCHANGED <<zret, result, ret, attempts, sizes, reported, parsed>>

\* One pass of the loop body of ZlibUncompress.
Attempt(t) ==
    /\ pc[t] = "loop"
    /\ \E it \in {Iteration(opaque[t], data[Local(t)], dest_len[Local(t)])} :
           /\ data' = [data EXCEPT ![Local(t)] = it.data]
           /\ dest_len' = [dest_len EXCEPT ![Local(t)] = it.dest_len]
           /\ ret' = [ret EXCEPT ![t] = it.ret]
           /\ attempts' = [attempts EXCEPT ![t] = Min(@ + 1, AttemptCap)]
           /\ sizes' = [sizes EXCEPT ![t] = <<@[2], it.used>>]
           /\ reported' = [reported EXCEPT ![t] = it.reported]
           /\ zret' = [zret EXCEPT ![t] = it.status]
           /\ pc' = [pc EXCEPT ![t] = IF it.next = "return" THEN "caller"
                                      ELSE it.next]
    /\ UNCHANGED <<fn, opaque, result, parsed, zcalls>>

\* return data;
ReturnData(t) ==
    /\ pc[t] = "break"
    /\ zret' = [zret EXCEPT ![t] = OkStatus(data[Local(t)])]
    /\ pc' = [pc EXCEPT ![t] = "caller"]
    /\ UNCHANGED <<fn, opaque, data, dest_len, result, ret, attempts, sizes,
                   reported, parsed, zcalls>>

\* The rest of the called function, up to its return.
Caller(t) ==
    /\ pc[t] = "caller"
    /\ \E o \in {Outcome(fn[t], zret[t])} :
           /\ result' = [result EXCEPT ![t] = o.result]
           /\ parsed' = [parsed EXCEPT ![t] = o.parsed]
    /\ pc' = [pc EXCEPT ![t] = "done"]
    /\ UNCHANGED <<fn, opaque, data, dest_len, zret, ret, attempts, sizes,
                   reported, zcalls>>

\* The caller has taken the result; the call's locals are gone.
Finish(t) ==
    /\ pc[t] = "done"
    /\ pc' = [pc EXCEPT ![t] = "idle"]
    /\ fn' = [fn EXCEPT ![t] = "none"]
    /\ opaque' = [opaque EXCEPT ![t] = <<>>]
    /\ data' = [data EXCEPT ![Local(t)] = <<>>]
    /\ dest_len' = [dest_len EXCEPT ![Local(t)] = 0]
    /\ zret' = [zret EXCEPT ![t] = NoStatus]
    /\ result' = [result EXCEPT ![t] = NoStatus]
    /\ ret' = [ret EXCEPT ![t] = "none"]
    /\ attempts' = [attempts EXCEPT ![t] = 0]
    /\ sizes' = [sizes EXCEPT ![t] = <<0, 0>>]
    /\ reported' = [reported EXCEPT ![t] = 0]
    /\ parsed' = [parsed EXCEPT ![t] = FALSE]
    /\ zcalls' = [zcalls EXCEPT ![t] = 0]

Step(t) == Attempt(t) \/ ReturnData(t) \/ Caller(t)

\* One caller, every input.
Next ==
    \/ \E f \in Functions, o \in Opaques : Call(1, f, o)
    \/ Attempt(1)
    \/ ReturnData(1)
    \/ Caller(1)
    \/ Finish(1)

Spec == Init /\ [][Next]_vars

\* A call, once entered, runs to its return: it is synchronous code.
FairSpec == Spec /\ WF_vars(Step(1))

\* Accessor calls on every thread, their steps interleaved.
NextConc ==
    \E t \in Threads :
        \/ \E f \in Accessors, o \in ConcOpaques : Call(t, f, o)
        \/ Attempt(t)
        \/ ReturnData(t)
        \/ Caller(t)
        \/ Finish(t)

SpecConc == Init /\ [][NextConc]_vars

\* -------------------------------------------------------------- properties

Returned(t) == pc[t] \in {"caller", "done"}

UncompressError == InvalidArgumentError("Failed to uncompress opaque data.")

ParseError == InvalidArgumentError("Failed to parse serialized data.")

\* The whole output of stream c, inflated with room for anything it can hold.
FullInflate(c) == InflateStream(c, (Len(c) + 1) * MaxMatch)

\* C1. Round trip: ZlibUncompress(Compress(b)) returns success with exactly
\* b, for every payload b, the empty one among them; and whatever stream it
\* accepts, the value returned is the stream's whole output, never a prefix.
C1_RoundTrip ==
    \A t \in Threads :
        Returned(t) =>
            /\ \A b \in Payloads :
                   opaque[t] = Compress(b) => zret[t] = OkStatus(b)
            /\ zret[t].ok =>
                   /\ FullInflate(opaque[t]).err = "Z_STREAM_END"
                   /\ zret[t].value = FullInflate(opaque[t]).out

C1_Witness ==
    /\ pc[1] = "done"
    /\ fn[1] = "ZlibUncompress"
    /\ opaque[1] = Compress(Encode(KernelName, Zeros(MetaLen)))
    /\ attempts[1] >= 2
    /\ result[1] = OkStatus(Encode(KernelName, Zeros(MetaLen)))

\* C2. Non-retry on corruption: an attempt whose return code is neither Z_OK
\* nor Z_BUF_ERROR ends the call with the InvalidArgument error of
\* ZlibUncompress; the loop is only ever re-entered after Z_BUF_ERROR.
C2_NonRetry ==
    \A t \in Threads :
        /\ ret[t] \notin {"none", "Z_OK", "Z_BUF_ERROR"} =>
               /\ Returned(t)
               /\ zret[t] = UncompressError
        /\ pc[t] = "loop" => ret[t] \in {"none", "Z_BUF_ERROR"}
        /\ pc[t] = "break" => ret[t] = "Z_OK"

C2_Witness ==
    /\ pc[1] = "done"
    /\ fn[1] = "ZlibUncompress"
    /\ opaque[1] = BadSum(Compress(Zeros(BigLen)))
    /\ ret[1] = "Z_DATA_ERROR"
    /\ attempts[1] >= 3
    /\ result[1] = UncompressError

\* C3. Termination on valid input: a call whose argument is a valid
\* compressed stream leaves the loop through the success exit.
C3_Termination ==
    \A t \in Threads :
        (pc[t] = "loop" /\ opaque[t] \in ValidOpaques)
            ~> (pc[t] = "caller" /\ zret[t].ok)

C3_Witness ==
    /\ pc[1] = "caller"
    /\ opaque[1] = Compress(Zeros(BigLen))
    /\ attempts[1] >= 3
    /\ zret[1].ok

\* C4. Each retry strictly increases the buffer size: an attempt after the
\* first uses a larger buffer than the attempt before it, and a call back in
\* the loop after an attempt holds a larger dest_len than that attempt used.
C4_StrictGrowth ==
    \A t \in Threads :
        /\ attempts[t] >= 2 => sizes[t][2] > sizes[t][1]
        /\ (pc[t] = "loop" /\ attempts[t] >= 1) =>
               dest_len[Local(t)] > sizes[t][2]

C4_Witness ==
    /\ pc[1] = "loop"
    /\ attempts[1] >= 2
    /\ ret[1] = "Z_BUF_ERROR"
    /\ sizes[1][1] > 0
    /\ sizes[1][2] > sizes[1][1]

\* C5. Growth correctness: a payload longer than twice the initial buffer is
\* still decompressed, after at least two doublings, and the value returned
\* has the length the codec reported on the successful attempt.
C5_GrowthCorrect ==
    \A t \in Threads :
        Returned(t) =>
            /\ \A b \in Payloads :
                   (/\ opaque[t] = Compress(b)
                    /\ Len(b) > GrowthFactor * InitialFactor * Len(opaque[t]))
                   => /\ zret[t].ok
                      /\ attempts[t] >= 3
                      /\ reported[t] = Len(b)
            /\ zret[t].ok => Len(zret[t].value) = reported[t]

C5_Witness ==
    /\ pc[1] = "done"
    /\ fn[1] = "ZlibUncompress"
    /\ opaque[1] = Compress(Zeros(BigLen))
    /\ attempts[1] >= 3
    /\ result[1].ok
    /\ Len(result[1].value) = BigLen
    /\ sizes[1][2] > BigLen

\* C6. Schema projection: on the compressed encoding of a record with
\* fields name and metadata, GetTritonKernelCallName returns the name and
\* GetTritonKernelCallSerializedMetadata the metadata, whatever other call
\* runs before or beside it.
C6_Projection ==
    \A t \in Threads :
        pc[t] = "done" =>
            \A n \in Names, m \in Metas :
                opaque[t] = Compress(Encode(n, m)) =>
                    /\ fn[t] = "GetTritonKernelCallName" =>
                           result[t] = OkStatus(n)
                    /\ fn[t] = "GetTritonKernelCallSerializedMetadata" =>
                           result[t] = OkStatus(m)

C6_Witness ==
    /\ pc[1] = "done"
    /\ pc[2] = "done"
    /\ opaque[1] = Compress(Encode(KernelName, Metadata))
    /\ opaque[2] = opaque[1]
    /\ fn[1] = "GetTritonKernelCallSerializedMetadata"
    /\ fn[2] = "GetTritonKernelCallName"
    /\ result[1] = OkStatus(Metadata)
    /\ result[2] = OkStatus(KernelName)

\* A finished accessor call whose decompression succeeded and whose
\* decompressed bytes do not parse.
Malformed(t) ==
    /\ pc[t] = "done"
    /\ fn[t] \in Accessors
    /\ zret[t].ok
    /\ ~ParseFromString(zret[t].value).ok

\* C7 as stated: on a malformed record both accessors return an error whose
\* kind differs from the kind returned for a corrupt compressed stream.
C7_DistinctKind ==
    \A t \in Threads :
        Malformed(t) =>
            /\ ~result[t].ok
            /\ result[t].code # UncompressError.code

\* C7, amended: on a malformed record both accessors return the
\* InvalidArgument error "Failed to parse serialized data.", which has the
\* code of the corrupt-stream error and differs from it in its message
\* only; no field value is returned.
C7_MalformedRecord ==
    \A t \in Threads :
        Malformed(t) =>
            /\ result[t] = ParseError
            /\ result[t].code = UncompressError.code
            /\ result[t].msg # UncompressError.msg
            /\ parsed[t]

C7_Witness ==
    /\ pc[1] = "done"
    /\ fn[1] = "GetTritonKernelCallName"
    /\ opaque[1] = Compress(<<NameTag, 5, 107>>)
    /\ zret[1] = OkStatus(<<NameTag, 5, 107>>)
    /\ result[1] = ParseError

\* C8. Error propagation: when ZlibUncompress fails inside an accessor, the
\* accessor returns that very status, ParseFromString is not called, and
\* ZlibUncompress was called once.
C8_Propagation ==
    \A t \in Threads :
        (pc[t] = "done" /\ fn[t] \in Accessors /\ ~zret[t].ok) =>
            /\ result[t] = zret[t]
            /\ result[t] = UncompressError
            /\ ~parsed[t]
            /\ zcalls[t] = 1

C8_Witness ==
    /\ pc[1] = "done"
    /\ fn[1] = "GetTritonKernelCallName"
    /\ opaque[1] = BadSum(Compress(Encode(KernelName, Zeros(MetaLen))))
    /\ attempts[1] >= 2
    /\ result[1] = UncompressError
    /\ ~parsed[1]

\* C9. Call isolation: with the steps of several calls interleaved, every
\* call returns what it returns when run alone, so calls on the same input
\* agree; and a call under way can always take its next step.
C9_Isolation ==
    /\ \A t \in Threads :
           /\ pc[t] = "done" => result[t] = RunAlone(fn[t], opaque[t])
           /\ pc[t] \in {"loop", "break", "caller"} => ENABLED Step(t)
    /\ \A t, u \in Threads :
           (/\ pc[t] = "done" /\ pc[u] = "done"
            /\ fn[t] = fn[u] /\ opaque[t] = opaque[u])
           => result[t] = result[u]

C9_Witness ==
    /\ pc[1] = "done"
    /\ pc[2] = "break"
    /\ fn[1] = "GetTritonKernelCallSerializedMetadata"
    /\ opaque[1] = Compress(Encode(KernelName, Metadata))
    /\ result[1] = OkStatus(Metadata)
    /\ opaque[2] = Compress(Zeros(BigLen))

\* A step of call t that made a codec attempt.
Attempted(t) ==
    /\ pc[t] = "loop"
    /\ <<ret[t], attempts[t], sizes[t], pc[t]>>' #
           <<ret[t], attempts[t], sizes[t], pc[t]>>

\* C10. No retry cap: an attempt that ends with Z_BUF_ERROR, however many
\* came before it, leaves the call in the loop with nothing returned and
\* dest_len doubled; the loop is left only at an attempt that ends with Z_OK
\* or with another error.
C10_NoRetryCap ==
    [][\A t \in Threads :
           Attempted(t) =>
               IF ret'[t] = "Z_BUF_ERROR"
               THEN /\ pc'[t] = "loop"
                    /\ zret'[t] = NoStatus
                    /\ result'[t] = NoStatus
                    /\ dest_len'[Local(t)] = GrowthFactor * sizes'[t][2]
               ELSE /\ pc'[t] # "loop"
                    /\ ret'[t] \in {"Z_OK", "Z_DATA_ERROR"}]_vars

C10_Witness ==
    /\ pc[1] = "loop"
    /\ ret[1] = "Z_BUF_ERROR"
    /\ attempts[1] >= 2
    /\ dest_len[1] = GrowthFactor * sizes[1][2]
    /\ result[1] = NoStatus

====
